---- MODULE Spec2Model ----
(***************************************************************************)
(* A model of the in-browser splat viewer of the 3D_SFM frontend           *)
(* (frontend/components/GaussianSplatViewer.tsx): the PLY decoder parsePLY *)
(* as a pure operator over byte sequences, and the GaussianSplatViewer     *)
(* component's load / render / teardown life cycle as a state machine.     *)
(***************************************************************************)
EXTENDS Integers, Sequences, FiniteSets, TLC

(***************************************************************************)
(* Text as sequences of character codes.                                   *)
(***************************************************************************)
Str_end_header == <<101, 110, 100, 95, 104, 101, 97, 100, 101, 114>>
Str_element == <<101, 108, 101, 109, 101, 110, 116>>
Str_vertex == <<118, 101, 114, 116, 101, 120>>
Str_property == <<112, 114, 111, 112, 101, 114, 116, 121>>
Str_float == <<102, 108, 111, 97, 116>>
Str_undefined == <<117, 110, 100, 101, 102, 105, 110, 101, 100>>
Str_x == <<120>>
Str_y == <<121>>
Str_z == <<122>>
Str_f_dc_0 == <<102, 95, 100, 99, 95, 48>>
Str_f_dc_1 == <<102, 95, 100, 99, 95, 49>>
Str_f_dc_2 == <<102, 95, 100, 99, 95, 50>>
Str_opacity == <<111, 112, 97, 99, 105, 116, 121>>
Str_scale_0 == <<115, 99, 97, 108, 101, 95, 48>>
Str_scale_1 == <<115, 99, 97, 108, 101, 95, 49>>
Str_scale_2 == <<115, 99, 97, 108, 101, 95, 50>>
Str_nx == <<110, 120>>
Str_ny == <<110, 121>>
Str_nz == <<110, 122>>
Str_ply == <<112, 108, 121>>
Str_format == <<102, 111, 114, 109, 97, 116, 32, 98, 105, 110, 97, 114, 121, 95,
                108, 105, 116, 116, 108, 101, 95, 101, 110, 100, 105, 97, 110,
                32, 49, 46, 48>>
Str_abc == <<97, 98, 99>>

SetMin(S) == CHOOSE a \in S : \A b \in S : a <= b

\* JavaScript numbers that parsePLY computes with: an integer or NaN.
JsNum(n) == [nan |-> FALSE, v |-> n]
JsNaN == [nan |-> TRUE, v |-> 0]

\* a === b on numbers: NaN equals nothing, itself included.
JsStrictEq(a, b) == ~a.nan /\ ~b.nan /\ a.v = b.v

\* a * b on numbers.
JsMul(a, b) == IF a.nan \/ b.nan THEN JsNaN ELSE JsNum(a.v * b.v)

\* ToIndex, as the typed-array constructors and DataView apply it: NaN is 0.
ToIndex(a) == IF a.nan THEN 0 ELSE a.v

(***************************************************************************)
(* parsePLY, lines 21-42: the scan for the bytes `end_header`.  Offsets    *)
(* are zero-based as in the source; bytes[i] of the source is bytes[i+1].  *)
(***************************************************************************)
MatchAt(bytes, i, pat) == \A k \in 1..Len(pat) : bytes[i + k] = pat[k]

FindHeaderEnd(bytes) ==
  LET hits == {i \in 0..(Len(bytes) - 11) : MatchAt(bytes, i, Str_end_header)}
  IN  IF hits = {} THEN 0
      ELSE LET i == SetMin(hits)
               nl == {j \in (i + 10)..(Len(bytes) - 1) : bytes[j + 1] = 10}
           IN  IF nl = {} THEN Len(bytes) + 1 ELSE SetMin(nl) + 1

(***************************************************************************)
(* Lines 44-45: bytes.slice(0, headerEnd), TextDecoder.decode, split('\n').*)
(***************************************************************************)
Slice0(bytes, end) == SubSeq(bytes, 1, IF end < Len(bytes) THEN end ELSE Len(bytes))

\* UTF-8 decoding of one byte: ASCII decodes to itself, a byte that is not
\* ASCII is shown here as U+FFFD (headers are ASCII text).
TextDecodeByte(b) == IF b < 128 THEN b ELSE 65533

TextDecode(bytes) == [k \in 1..Len(bytes) |-> TextDecodeByte(bytes[k])]

RECURSIVE SplitOn(_, _)
SplitOn(s, c) ==
  LET at == {k \in 1..Len(s) : s[k] = c}
  IN  IF at = {} THEN <<s>>
      ELSE LET k == SetMin(at)
           IN  <<SubSeq(s, 1, k - 1)>> \o SplitOn(SubSeq(s, k + 1, Len(s)), c)

\* The characters String.prototype.trim and the regular expression \s take
\* as white space, among those TextDecode can produce here.
JsWhiteSpace == {9, 10, 11, 12, 13, 32}

Trim(s) ==
  LET keep == {k \in 1..Len(s) : s[k] \notin JsWhiteSpace}
  IN  IF keep = {} THEN <<>>
      ELSE SubSeq(s, SetMin(keep), CHOOSE a \in keep : \A b \in keep : b <= a)

\* s.split(/\s+/) of a trimmed string: the maximal runs of characters that
\* are not white space; the empty string splits into one empty part.
RECURSIVE SplitWhiteSpace(_)
SplitWhiteSpace(s) ==
  LET ws == {k \in 1..Len(s) : s[k] \in JsWhiteSpace}
  IN  IF ws = {} THEN <<s>>
      ELSE LET k == SetMin(ws)
               rest == {j \in (k + 1)..Len(s) : s[j] \notin JsWhiteSpace}
           IN  IF rest = {} THEN <<SubSeq(s, 1, k - 1), <<>> >>
               ELSE <<SubSeq(s, 1, k - 1)>>
                      \o SplitWhiteSpace(SubSeq(s, SetMin(rest), Len(s)))

\* parts[k] with a zero-based k, where the source uses it as a string: a
\* missing element is undefined, which parseInt and a property key both
\* turn into the text "undefined".
PartAsString(parts, k) == IF k + 1 <= Len(parts) THEN parts[k + 1] ELSE Str_undefined

(***************************************************************************)
(* Line 53: parseInt(parts[2]) with no radix argument.                     *)
(***************************************************************************)
DigitValue(c) ==
  IF c \in 48..57 THEN c - 48
  ELSE IF c \in 97..102 THEN c - 87
  ELSE IF c \in 65..70 THEN c - 55
  ELSE 99

RECURSIVE DigitsValue(_, _, _)
DigitsValue(s, radix, acc) ==
  IF s = <<>> \/ DigitValue(s[1]) >= radix THEN acc
  ELSE DigitsValue(Tail(s), radix, acc * radix + DigitValue(s[1]))

ParseInt(str) ==
  LET t == Trim(str)
      neg == t # <<>> /\ t[1] = 45
      signed == t # <<>> /\ t[1] \in {43, 45}
      u == IF signed THEN Tail(t) ELSE t
      hex == Len(u) >= 2 /\ u[1] = 48 /\ u[2] \in {120, 88}
      radix == IF hex THEN 16 ELSE 10
      d == IF hex THEN SubSeq(u, 3, Len(u)) ELSE u
  IN  IF d = <<>> \/ DigitValue(d[1]) >= radix THEN JsNaN
      ELSE JsNum((IF neg THEN -1 ELSE 1) * DigitsValue(d, radix, 0))

(***************************************************************************)
(* Lines 47-57: the header loop.  The state of the loop is the pair        *)
(* (vertexCount, properties).                                              *)
(***************************************************************************)
HeaderLine(acc, line) ==
  LET parts == SplitWhiteSpace(Trim(line))
  IN  IF parts[1] = Str_element /\ PartAsString(parts, 1) = Str_vertex
        THEN [acc EXCEPT !.vertexCount = ParseInt(PartAsString(parts, 2))]
      ELSE IF parts[1] = Str_property
        THEN [acc EXCEPT !.properties = Append(@, PartAsString(parts, 2))]
      ELSE acc

RECURSIVE HeaderLoop(_, _)
HeaderLoop(acc, lines) ==
  IF lines = <<>> THEN acc
  ELSE HeaderLoop(HeaderLine(acc, Head(lines)), Tail(lines))

ParseHeader(headerText) ==
  HeaderLoop([vertexCount |-> JsNum(0), properties |-> <<>>],
             SplitOn(headerText, 10))

(***************************************************************************)
(* Lines 61-65 and 76-78: propIndex and the `in` tests.  NoIndex stands    *)
(* for undefined, the value of propIndex[name] for an undeclared name.     *)
(***************************************************************************)
NoIndex == -1

PropIndex(properties, name) ==
  LET at == {k \in 1..Len(properties) : properties[k] = name}
  IN  IF at = {} THEN NoIndex
      ELSE (CHOOSE a \in at : \A b \in at : b <= a) - 1

HasProp(properties, name) == PropIndex(properties, name) # NoIndex

(***************************************************************************)
(* Lines 69 and 84-107: the DataView over the bytes after the header and   *)
(* its getFloat32(byteOffset, true).                                       *)
(***************************************************************************)
\* A decoder that reads every record's fields from record 0.
Mutant_FieldOffset(i, bytesPerVertex, idx) == IF idx = NoIndex THEN 0 ELSE idx * 4

\* offset + propIndex[name] * 4: with propIndex[name] undefined the sum is
\* NaN, which getFloat32 takes as byte offset 0.
FieldOffset(i, bytesPerVertex, idx) ==
  IF idx = NoIndex THEN 0 ELSE i * bytesPerVertex + idx * 4

\* getFloat32 throws a RangeError unless the four bytes lie in the view.
InView(viewLen, byteOffset) == byteOffset + 4 <= viewLen

\* The little-endian IEEE-754 single at byteOffset of the view that starts
\* at headerEnd: sign, biased exponent and fraction bits.
GetFloat32(bytes, headerEnd, byteOffset) ==
  LET b0 == bytes[headerEnd + byteOffset + 1]
      b1 == bytes[headerEnd + byteOffset + 2]
      b2 == bytes[headerEnd + byteOffset + 3]
      b3 == bytes[headerEnd + byteOffset + 4]
  IN  [s |-> b3 \div 128,
       e |-> (b3 % 128) * 2 + (b2 \div 128),
       m |-> (b2 % 128) * 65536 + b1 * 256 + b0]

IsNaN32(f) == f.e = 255 /\ f.m # 0

(***************************************************************************)
(* Lines 88-100: color from the spherical-harmonic DC coefficient,         *)
(* Math.max(0, Math.min(1, f * C0 + 0.5)).  The result is NaN for a NaN    *)
(* coefficient, 0 or 1 where the clamp cuts, and otherwise the value       *)
(* f * C0 + 0.5 strictly between 0 and 1, kept by its coefficient.         *)
(* f * C0 + 0.5 >= 1 exactly for the singles f >= 1.7724539 (exponent 127, *)
(* fraction >= 6479813), and <= 0 exactly for f <= -1.7724539.             *)
(***************************************************************************)
ClampExp == 127
ClampFrac == 6479813

AtLeastClampMagnitude(f) ==
  f.e > ClampExp \/ (f.e = ClampExp /\ f.m >= ClampFrac)

SHToColor(f) ==
  IF IsNaN32(f) THEN [k |-> "nan"]
  ELSE IF AtLeastClampMagnitude(f)
    THEN (IF f.s = 0 THEN [k |-> "one"] ELSE [k |-> "zero"])
  ELSE [k |-> "affine", f |-> f]

\* A fallback color of black.
Mutant_White == [k |-> "zero"]

\* Lines 97-99: the color of a file that declares no f_dc_0.
White == [k |-> "one"]

(***************************************************************************)
(* Lines 102-111: size.  The computed size is kept by its four operands,   *)
(* cbrt(exp(s0) * exp(s1) * exp(s2)) * (1 / (1 + exp(-opacity))) * 50.     *)
(***************************************************************************)
DefaultSize == [k |-> "default", v |-> 2]

ComputedSize(opacity, s0, s1, s2) ==
  [k |-> "computed", opacity |-> opacity, s0 |-> s0, s1 |-> s1, s2 |-> s2]

(***************************************************************************)
(* Lines 75 and 88-107 in numbers.  A value is held in units of 10^-8;     *)
(* products and quotients are cut to that unit, so a result is below the   *)
(* exact one by a few units.  The operands are the singles with a whole    *)
(* value, which the payload words are, and results up to 21.               *)
(***************************************************************************)
FixOne == 100000000
FixHalf == 10000

MulFix(a, b) ==
  LET ah == a \div FixHalf
      al == a % FixHalf
      bh == b \div FixHalf
      bl == b % FixHalf
  IN  ah * bh + (ah * bl) \div FixHalf + (al * bh) \div FixHalf

RECURSIVE LongDiv(_, _, _, _)
LongDiv(q, r, b, digits) ==
  IF digits = 0 THEN q
  ELSE LongDiv(q * 10 + (r * 10) \div b, (r * 10) % b, b, digits - 1)

\* a / b for b up to 2.
DivFix(a, b) == LongDiv(a \div b, a % b, b, 8)

RECURSIVE Pow2(_)
Pow2(n) == IF n = 0 THEN 1 ELSE 2 * Pow2(n - 1)

\* The value of a single that is a whole number.
SingleInt(f) ==
  IF f.e = 0 THEN 0
  ELSE LET mag == (8388608 + f.m) \div Pow2(150 - f.e)
       IN  IF f.s = 1 THEN 0 - mag ELSE mag

\* Math.exp of a whole number: e and 1/e multiplied up.
ExpOne == 271828183
ExpMinusOne == 36787944

RECURSIVE MathExp(_)
MathExp(n) ==
  IF n = 0 THEN FixOne
  ELSE IF n > 0 THEN MulFix(MathExp(n - 1), ExpOne)
  ELSE MulFix(MathExp(n + 1), ExpMinusOne)

\* Math.cbrt by bisection: the largest y with y * y * y <= x, for x < 19.
Cube(y) == MulFix(MulFix(y, y), y)
CbrtTop == 270000000

RECURSIVE CbrtSearch(_, _, _)
CbrtSearch(lo, hi, x) ==
  IF hi - lo <= 1 THEN lo
  ELSE LET mid == (lo + hi) \div 2
       IN  IF Cube(mid) <= x THEN CbrtSearch(mid, hi, x) ELSE CbrtSearch(lo, mid, x)

MathCbrt(x) == CbrtSearch(0, CbrtTop, x)

\* Line 103: 1 / (1 + Math.exp(-raw)).
Sigmoid(raw) == DivFix(FixOne, FixOne + MathExp(0 - raw))

\* Line 75, in units of 10^-6, and the factor of line 107.
C0Micro == 282095
SizeFactor == 50

\* A size without the opacity factor.
Mutant_SizeValue(size) ==
  IF size.k = "default" THEN size.v * 1000000
  ELSE (MathCbrt(MulFix(MulFix(MathExp(SingleInt(size.s0)),
                               MathExp(SingleInt(size.s1))),
                        MathExp(SingleInt(size.s2)))) \div 100) * SizeFactor

\* Lines 103-109: the size in units of 10^-6.
SizeValue(size) ==
  IF size.k = "default" THEN size.v * 1000000
  ELSE (MulFix(MathCbrt(MulFix(MulFix(MathExp(SingleInt(size.s0)),
                                      MathExp(SingleInt(size.s1))),
                               MathExp(SingleInt(size.s2)))),
               Sigmoid(SingleInt(size.opacity))) \div 100) * SizeFactor

\* Lines 91-99: a channel that is a number, in units of 10^-6.
ColorValue(c) ==
  IF c.k = "one" THEN 1000000
  ELSE IF c.k = "zero" THEN 0
  ELSE SingleInt(c.f) * C0Micro + 500000

(***************************************************************************)
(* parsePLY, lines 17-115.  A call that throws yields [ok |-> FALSE]; a    *)
(* call that returns yields the three arrays and vertexCount.              *)
(***************************************************************************)
Throw(msg) == [ok |-> FALSE, error |-> msg]

\* The byte offsets record i reads, in the order of lines 84-107.
RecordReads(i, properties, hasColor, hasSize) ==
  LET bpv == Len(properties) * 4
      off(name) == FieldOffset(i, bpv, PropIndex(properties, name))
  IN  {off(Str_x), off(Str_y), off(Str_z)}
        \cup (IF hasColor THEN {off(Str_f_dc_0), off(Str_f_dc_1), off(Str_f_dc_2)}
              ELSE {})
        \cup (IF hasSize THEN {off(Str_opacity), off(Str_scale_0),
                               off(Str_scale_1), off(Str_scale_2)}
              ELSE {})

DecodeRecords(bytes, headerEnd, vertexCount, properties) ==
  LET n == ToIndex(vertexCount)
      bpv == Len(properties) * 4
      viewLen == Len(bytes) - headerEnd
      hasColor == HasProp(properties, Str_f_dc_0)
      hasOpacity == HasProp(properties, Str_opacity)
      hasScale == HasProp(properties, Str_scale_0)
      hasSize == hasOpacity /\ hasScale
      rd(i, name) == GetFloat32(bytes, headerEnd,
                                FieldOffset(i, bpv, PropIndex(properties, name)))
      axis(c) == IF c = 0 THEN Str_x ELSE IF c = 1 THEN Str_y ELSE Str_z
      chan(c) == IF c = 0 THEN Str_f_dc_0 ELSE IF c = 1 THEN Str_f_dc_1 ELSE Str_f_dc_2
  IN  IF \E i \in 0..(n - 1) :
           \E o \in RecordReads(i, properties, hasColor, hasSize) : ~InView(viewLen, o)
        THEN Throw("RangeError: Offset is outside the bounds of the DataView")
      ELSE [ok |-> TRUE,
            positions |-> [j \in 1..(3 * n) |-> rd((j - 1) \div 3, axis((j - 1) % 3))],
            colors |-> [j \in 1..(3 * n) |->
                          IF hasColor
                            THEN SHToColor(rd((j - 1) \div 3, chan((j - 1) % 3)))
                          ELSE White],
            sizes |-> [j \in 1..n |->
                         IF hasSize
                           THEN ComputedSize(rd(j - 1, Str_opacity), rd(j - 1, Str_scale_0),
                                             rd(j - 1, Str_scale_1), rd(j - 1, Str_scale_2))
                         ELSE DefaultSize],
            vertexCount |-> vertexCount]

\* A parsePLY without the check of line 59.
Mutant_parsePLY_NoEmptyCheck(bytes) ==
  LET headerEnd == FindHeaderEnd(bytes)
      h == ParseHeader(TextDecode(Slice0(bytes, headerEnd)))
  IN  IF headerEnd > Len(bytes)
        THEN Throw("RangeError: Start offset is outside the bounds of the buffer")
      ELSE IF ~h.vertexCount.nan /\ h.vertexCount.v < 0
        THEN Throw("RangeError: Invalid typed array length")
      ELSE DecodeRecords(bytes, headerEnd, h.vertexCount, h.properties)

parsePLY(bytes) ==
  LET headerEnd == FindHeaderEnd(bytes)
      h == ParseHeader(TextDecode(Slice0(bytes, headerEnd)))
  IN  IF JsStrictEq(h.vertexCount, JsNum(0)) THEN Throw("No vertices found in PLY")
      ELSE IF headerEnd > Len(bytes)
        THEN Throw("RangeError: Start offset is outside the bounds of the buffer")
      ELSE IF ~h.vertexCount.nan /\ h.vertexCount.v < 0
        THEN Throw("RangeError: Invalid typed array length")
      ELSE DecodeRecords(bytes, headerEnd, h.vertexCount, h.properties)

(***************************************************************************)
(* Input buffers for parsePLY: an ASCII header (the two fixed lines of the *)
(* format, an `element vertex` line, `property float` lines, a terminator) *)
(* followed by a payload of little-endian singles.                         *)
(***************************************************************************)
MaxCount == 3
MaxWords == 10

RECURSIVE Decimal(_)
Decimal(n) == IF n < 10 THEN <<48 + n>> ELSE Decimal(n \div 10) \o <<48 + (n % 10)>>

\* The text after `element vertex `: a decimal count, a negative count, a
\* word that is no number, or nothing at all.
CountTokens ==
  {Decimal(n) : n \in 0..MaxCount} \cup {<<45, 49>>, Str_abc, <<>>}

PropXYZ == <<Str_x, Str_y, Str_z>>
PropNormals == <<Str_x, Str_y, Str_z, Str_nx, Str_ny, Str_nz>>
PropSplat == <<Str_x, Str_y, Str_z, Str_f_dc_0, Str_f_dc_1, Str_f_dc_2,
               Str_opacity, Str_scale_0, Str_scale_1, Str_scale_2>>
PropNoX == <<Str_y, Str_z>>
\* f_dc_0 without f_dc_1 and f_dc_2; opacity and scale_0 without scale_1
\* and scale_2.
PropColorOnly0 == <<Str_x, Str_y, Str_z, Str_f_dc_0>>
PropScaleOnly0 == <<Str_x, Str_y, Str_z, Str_opacity, Str_scale_0>>
PropLists == {<<>>, PropXYZ, PropNormals, PropSplat, PropNoX,
              PropColorOnly0, PropScaleOnly0}

\* How the header ends: with the line `end_header`; with a line that goes
\* on after the word (`end_header x`); with the word and no newline; with
\* nothing.
Terminators == {"newline", "trailing", "bare", "absent"}

\* A comment line that holds the word end_header, put before the
\* `element vertex` line or after the last property line.
Comments == {"none", "early", "late", "benign"}
CommentLine == <<99, 111, 109, 109, 101, 110, 116, 32>> \o Str_end_header \o <<10>>

\* A comment line without the word, put before the `element vertex` line.
BenignLine == <<99, 111, 109, 109, 101, 110, 116, 32>> \o Str_abc \o <<10>>

\* Singles as their four bytes, least significant first:
\* 0.0, 1.0, -2.0, 10.0 and a NaN.
FloatWords == << <<0, 0, 0, 0>>, <<0, 0, 128, 63>>, <<0, 0, 0, 192>>,
                 <<0, 0, 32, 65>>, <<0, 0, 192, 127>> >>

RECURSIVE Flatten(_)
Flatten(ss) == IF ss = <<>> THEN <<>> ELSE Head(ss) \o Flatten(Tail(ss))

\* The record of the example file: x, y, z, f_dc_0, f_dc_1 and f_dc_2 are
\* 0.0, opacity is 10.0, scale_0, scale_1 and scale_2 are 0.0; the file
\* has three such records of ten words.
ExampleRecord == <<1, 1, 1, 1, 1, 1, 4, 1, 1, 1>>
ExampleWords == 30

\* The j-th payload word (from 1) is FloatWords[WordAt(j, fill)]: the
\* words in turn, starting at the second or the third, or the example
\* record over and over.
WordAt(j, fill) ==
  IF fill = 2 THEN ExampleRecord[((j - 1) % Len(ExampleRecord)) + 1]
  ELSE ((j + fill) % Len(FloatWords)) + 1

Payload(words, tail, fill) ==
  Flatten([j \in 1..words |-> FloatWords[WordAt(j, fill)]])
    \o [j \in 1..tail |-> 0]

HeaderBytes(hasVertexLine, countToken, props, term, comment) ==
  Str_ply \o <<10>> \o Str_format \o <<10>>
    \o (IF comment = "early" THEN CommentLine
        ELSE IF comment = "benign" THEN BenignLine
        ELSE <<>>)
    \o (IF hasVertexLine
          THEN Str_element \o <<32>> \o Str_vertex \o <<32>> \o countToken \o <<10>>
          ELSE <<>>)
    \o Flatten([k \in 1..Len(props) |->
                  Str_property \o <<32>> \o Str_float \o <<32>> \o props[k] \o <<10>>])
    \o (IF comment = "late" THEN CommentLine ELSE <<>>)
    \o (IF term = "newline" THEN Str_end_header \o <<10>>
        ELSE IF term = "trailing" THEN Str_end_header \o <<32, 120, 10>>
        ELSE IF term = "bare" THEN Str_end_header
        ELSE <<>>)

\* The make-ups of the buffers given to parsePLY.  A header without an
\* `element vertex` line has no count token; the comment line is tried
\* with the well-formed terminator only.
Inputs ==
  {in \in [hv : BOOLEAN, ct : CountTokens, props : PropLists, term : Terminators,
           comment : Comments, w : 0..MaxWords \cup {ExampleWords}, t : {0, 2},
           fill : {0, 1, 2}] :
     /\ (~in.hv => in.ct = <<>>)
     /\ (in.comment # "none" => in.term = "newline")
     /\ (in.fill = 2 => in.props = PropSplat)}

HeaderOf(in) == HeaderBytes(in.hv, in.ct, in.props, in.term, in.comment)

BufferOf(in) == HeaderOf(in) \o Payload(in.w, in.t, in.fill)

InputBuffers == {BufferOf(in) : in \in Inputs}

(***************************************************************************)
(* The state.  buffer and result belong to a call of parsePLY on its own;  *)
(* the rest is the GaussianSplatViewer component (lines 117-240): its      *)
(* props and React state, one record per run of the effect (a "load"),     *)
(* the children of the container element, and the microtask queue.         *)
(***************************************************************************)
(*   buffer      the ArrayBuffer given to parsePLY (line 17)                    *)
(*   result      <<>> before the call, <<r>> once parsePLY has ended with r    *)
(*   mounted     the component is mounted                                      *)
(*   splatUrl    the splatUrl prop (line 117)                                  *)
(*   nLoads      how many times the effect of line 123 has run; the current    *)
(*               load is ld[nLoads]                                            *)
(*   loading, error, pointCount   the useState values of lines 119-121         *)
(*   ld          per run of the effect: init's position and outcome, the       *)
(*               objects it created, its pending animation frame and resize    *)
(*               listener, and counts of the calls it made                     *)
(*   container   the canvases that are children of containerRef.current, by    *)
(*               load, in appendChild order (lines 187, 222)                   *)
(*   microtasks  the queued reactions of cleanup.then (line 238), oldest first *)
(*   input       the make-up of buffer: which header lines it has, how it      *)
(*               ends its header, how many payload words follow                 *)
(*   containerSize   <<clientWidth, clientHeight>> of containerRef.current      *)
(*   files, uploading   the useState values of ImageUpload (lines 12-13)        *)
(*   uploads     the file lists of the POST requests sent so far (line 46)      *)
(*   inFlight    how many of those requests have not settled yet                *)
(*   nOps        how many drop, remove and upload operations have happened      *)
(*   downloadUrl the downloadUrl prop of the viewer (line 117)                  *)
(*   pageStatus, jobId, modelUrl   the useState values of the page Home        *)
(*   nJobs       how many jobs the backend has created                          *)
(*   interval    the setInterval timer of ReconstructionProgress (line 45):     *)
(*               whether it is set, the jobId its checkStatus closes over, and  *)
(*               the seconds since it was set or last fired                     *)
(*   polls       the jobs of the status requests in flight, oldest first        *)
(*   clock       seconds passed                                                 *)
(*   progress    the progress state of the mounted ReconstructionProgress       *)
(*   callbacks   per job, the onComplete and onError calls made so far          *)
VARIABLES input, buffer, result,
          mounted, splatUrl, nLoads, loading, error, pointCount,
          ld, container, microtasks,
          containerSize,
          files, uploading, uploads, inFlight, nOps,
          downloadUrl,
          pageStatus, jobId, modelUrl, nJobs, interval, polls, clock, progress, callbacks

plyVars == <<input, buffer, result>>
viewerVars == <<mounted, splatUrl, nLoads, loading, error, pointCount,
                ld, container, microtasks>>
camVars == <<containerSize>>
uploadVars == <<files, uploading, uploads, inFlight, nOps>>
hostVars == <<downloadUrl>>
pollVars == <<pageStatus, jobId, modelUrl, nJobs, interval, polls, clock, progress, callbacks>>
vars == <<input, buffer, result, mounted, splatUrl, nLoads, loading, error, pointCount,
          ld, container, microtasks, containerSize,
          files, uploading, uploads, inFlight, nOps,
          downloadUrl,
          pageStatus, jobId, modelUrl, nJobs, interval, polls, clock, progress, callbacks>>

MaxLoads == 2
MaxJobs == 2
MaxTime == 6

Jobs == 1..MaxJobs

\* No job yet: jobId and modelUrl are null (0), no timer is set.
NoInterval == [active |-> FALSE, job |-> 0, elapsed |-> 0]
PollIdle ==
  /\ pageStatus = "idle"
  /\ jobId = 0
  /\ modelUrl = 0
  /\ nJobs = 0
  /\ interval = NoInterval
  /\ polls = <<>>
  /\ clock = 0
  /\ progress = 0
  /\ callbacks = [j \in Jobs |-> <<>>]

NumUrls == 2
MaxFrames == 1
MaxWheel == 1

Loads == 1..MaxLoads
Urls == 1..NumUrls

\* The response bodies the model lets response.arrayBuffer() deliver: a
\* complete two-vertex file, a file truncated in its first record, a file
\* whose vertex count is no number, a file with zero vertices, a file of
\* fewer than 100 bytes.
SampleBodies ==
  {HeaderBytes(TRUE, Decimal(2), PropXYZ, "newline", "none") \o Payload(6, 0, 0),
   HeaderBytes(TRUE, Decimal(2), PropXYZ, "newline", "none") \o Payload(2, 0, 0),
   HeaderBytes(TRUE, Str_abc, PropXYZ, "newline", "none") \o Payload(6, 0, 0),
   HeaderBytes(TRUE, Decimal(0), PropXYZ, "newline", "none") \o Payload(6, 0, 0),
   Str_ply \o <<10>>}

SampleParses == [b \in SampleBodies |-> parsePLY(b)]

Resources == {"geometry", "material", "renderer", "controls"}

\* The sizes the layout gives the container, <<clientWidth, clientHeight>>
\* in units of 100 pixels: the 6-units-high box of the page in two widths,
\* and the box collapsed to no height.
InitialSize == <<12, 6>>
ContainerSizes == {InitialSize, <<6, 6>>, <<6, 0>>}

\* container.clientWidth and clientHeight (lines 155, 185, 209-210); an
\* element that is no longer in the document has none.
ClientSize == IF mounted THEN containerSize ELSE <<0, 0>>

RECURSIVE GCD(_, _)
GCD(a, b) == IF b = 0 THEN a ELSE GCD(b, a % b)

\* The JavaScript quotient w / h of two non-negative integers (lines 155,
\* 211), a fraction in lowest terms, Infinity or NaN.
JsDiv(w, h) ==
  IF h = 0 THEN (IF w = 0 THEN [k |-> "nan"] ELSE [k |-> "inf"])
  ELSE [k |-> "ratio", n |-> w \div GCD(w, h), d |-> h \div GCD(w, h)]

\* Line 168: the camera starts at center + radius * (2, 1, 2), which is
\* 3 * radius from the center; distances are in hundredths of the radius.
CameraStart == 300

\* Line 190: new OrbitControls(camera, domElement) with zoomSpeed and
\* minDistance left at what the constructor gives them: one wheel step
\* scales the distance by 0.95, and the distance is kept >= 0.
ZoomPercent == 95
DefaultMinDistance == 0

\* Lines 126-128 and the locals of init: the state of one run of the effect.
BlankLoad ==
  [url |-> 0, pc |-> "idle", outcome |-> "none", cleanupCalled |-> FALSE,
   teardown |-> "none", fetchCalls |-> 0, setCalls |-> 0,
   res |-> [r \in Resources |-> "none"],
   disposeCalls |-> [r \in Resources |-> 0],
   raf |-> FALSE, resizeListener |-> FALSE,
   renderCalls |-> 0, controlsUpdates |-> 0, tdLog |-> <<>>,
   aspect |-> [k |-> "none"], rendererSize |-> <<>>, target |-> "none",
   camDistance |-> 0, minDistance |-> 0, wheelEvents |-> 0,
   initLog |-> <<>>, frameLog |-> <<>>, rafPending |-> 0]

\* Line 120: useState<string | null>(null); null is the empty tuple, a
\* message the pair of the fixed prefix and err.message.
NoError == <<>>

\* Lines 229-231: `Failed to load 3D model: ${msg}`.
ErrorText(msg) == <<"Failed to load 3D model: ", msg>>

\* err.message of the errors raised outside parsePLY (lines 136-141, 184).
FailureMessage(outcome) ==
  CASE outcome = "fetchRejected" -> "Failed to fetch"
    [] outcome = "httpError" -> "Download failed: 404"
    [] outcome = "bodyRejected" -> "The body stream could not be read"
    [] outcome = "tooSmall" -> "PLY file is empty or too small"
    [] outcome = "webglError" -> "Error creating WebGL context."

Init ==
  /\ input = <<>>
  /\ buffer = <<>>
  /\ result = <<>>
  /\ mounted = TRUE
  /\ splatUrl = 1
  /\ nLoads = 0
  /\ loading = TRUE
  /\ error = NoError
  /\ pointCount = JsNum(0)
  /\ ld = [l \in Loads |-> BlankLoad]
  /\ container = <<>>
  /\ microtasks = <<>>
  /\ containerSize = InitialSize
  /\ files = <<>>
  /\ uploading = FALSE
  /\ uploads = <<>>
  /\ inFlight = 0
  /\ nOps = 0
  /\ downloadUrl = 1
  /\ PollIdle

\* Lines 130-136: init() up to its first await.
StartLoad(u) ==
  [BlankLoad EXCEPT !.url = u, !.pc = "fetch", !.fetchCalls = 1, !.initLog = <<"fetch">>]

\* What init has done so far, in the order of its statements.
Logged(rec, steps) == [rec EXCEPT !.initLog = @ \o steps]

\* Lines 237-239: the effect's cleanup, cleanup.then((fn) => fn?.()).  The
\* reaction becomes a microtask once init's promise is settled.
EffectCleanup(rec) == [rec EXCEPT !.cleanupCalled = TRUE]

Enqueue(q, l, rec) == IF rec.cleanupCalled /\ rec.pc = "done" THEN Append(q, l) ELSE q

\* Lines 228-233: the catch block; init resolves with undefined.
Catch(rec, outcome) ==
  [rec EXCEPT !.pc = "done", !.outcome = outcome, !.setCalls = @ + 2,
              !.initLog = @ \o <<"catch">>]

\* Lines 123-136, 236: the effect runs after the first commit.
MountEffect ==
  /\ mounted /\ nLoads = 0 /\ microtasks = <<>>
  /\ nLoads' = 1
  /\ ld' = [ld EXCEPT ![1] = StartLoad(splatUrl)]
  /\ UNCHANGED <<mounted, splatUrl, loading, error, pointCount, container,
                 microtasks, plyVars, camVars, uploadVars, hostVars, pollVars>>

\* Line 240: splatUrl changes; React runs the previous effect's cleanup and
\* then the effect again.
ChangeSplatUrl(u) ==
  /\ mounted /\ nLoads >= 1 /\ nLoads < MaxLoads /\ microtasks = <<>>
  /\ u # splatUrl
  /\ splatUrl' = u
  /\ nLoads' = nLoads + 1
  /\ ld' = [ld EXCEPT ![nLoads] = EffectCleanup(@), ![nLoads + 1] = StartLoad(u)]
  /\ microtasks' = Enqueue(microtasks, nLoads, EffectCleanup(ld[nLoads]))
  /\ UNCHANGED <<mounted, loading, error, pointCount, container, plyVars, camVars, uploadVars, hostVars, pollVars>>

\* An effect that depends on both props.
Mutant_EffectDeps(u, d) == <<u, d>>

\* Line 240: the dependency list of the effect, [splatUrl].
EffectDeps(u, d) == <<u>>

DownloadUrls == {1, 2}

\* The parent renders the viewer with another downloadUrl (line 117).  The
\* effect runs again only when its dependency list has changed.
ChangeDownloadUrl(d) ==
  /\ mounted /\ nLoads >= 1 /\ microtasks = <<>>
  /\ d # downloadUrl
  /\ downloadUrl' = d
  /\ IF EffectDeps(splatUrl, d) # EffectDeps(splatUrl, downloadUrl)
       THEN /\ nLoads < MaxLoads
            /\ nLoads' = nLoads + 1
            /\ ld' = [ld EXCEPT ![nLoads] = EffectCleanup(@),
                                 ![nLoads + 1] = StartLoad(splatUrl)]
            /\ microtasks' = Enqueue(microtasks, nLoads, EffectCleanup(ld[nLoads]))
       ELSE UNCHANGED <<nLoads, ld, microtasks>>
  /\ UNCHANGED <<mounted, splatUrl, loading, error, pointCount, container,
                 plyVars, camVars, uploadVars, pollVars>>

\* Lines 237-239: the component unmounts; React runs the effect's cleanup.
Unmount ==
  /\ mounted /\ nLoads >= 1 /\ microtasks = <<>>
  /\ mounted' = FALSE
  /\ ld' = [ld EXCEPT ![nLoads] = EffectCleanup(@)]
  /\ microtasks' = Enqueue(microtasks, nLoads, EffectCleanup(ld[nLoads]))
  /\ UNCHANGED <<splatUrl, nLoads, loading, error, pointCount, container,
                 plyVars, camVars, uploadVars, hostVars, pollVars>>

\* A state setter of an unmounted component changes nothing.
SetState(old, new) == IF mounted THEN new ELSE old

\* A catch block that sets the error and leaves loading as it was.
Mutant_FailLoad_KeepsLoading(l, outcome, msg, rec) ==
  /\ ld' = [ld EXCEPT ![l] = Catch(rec, outcome)]
  /\ error' = SetState(error, ErrorText(msg))
  /\ loading' = loading
  /\ microtasks' = Enqueue(microtasks, l, Catch(rec, outcome))
  /\ UNCHANGED <<mounted, splatUrl, nLoads, container, plyVars, camVars, uploadVars, hostVars, pollVars>>

\* A catch block that only logs: no setError.
Mutant_FailLoad_LogsOnly(l, outcome, msg, rec) ==
  /\ ld' = [ld EXCEPT ![l] = Catch(rec, outcome)]
  /\ error' = error
  /\ loading' = SetState(loading, FALSE)
  /\ microtasks' = Enqueue(microtasks, l, Catch(rec, outcome))
  /\ UNCHANGED <<mounted, splatUrl, nLoads, container, plyVars, camVars, uploadVars, hostVars, pollVars>>

\* The load fails in the catch block: setError(...), setLoading(false).
FailLoad(l, outcome, msg, rec) ==
  /\ ld' = [ld EXCEPT ![l] = Catch(rec, outcome)]
  /\ error' = SetState(error, ErrorText(msg))
  /\ loading' = SetState(loading, FALSE)
  /\ microtasks' = Enqueue(microtasks, l, Catch(rec, outcome))
  /\ UNCHANGED <<mounted, splatUrl, nLoads, container, plyVars, camVars, uploadVars, hostVars, pollVars>>

\* Lines 136-138: fetch settles.  It rejects, or resolves with a response
\* that is not ok, or resolves with one that is and arrayBuffer() starts.
FetchSettle(l, how) ==
  /\ ld[l].pc = "fetch" /\ microtasks = <<>>
  /\ IF how = "ok"
       THEN /\ ld' = [ld EXCEPT ![l] = Logged([@ EXCEPT !.pc = "body"], <<"fetched">>)]
            /\ UNCHANGED <<mounted, splatUrl, nLoads, loading, error, pointCount,
                           container, microtasks, plyVars, camVars, uploadVars, hostVars, pollVars>>
       ELSE /\ FailLoad(l, how, FailureMessage(how), ld[l])
            /\ UNCHANGED pointCount

\* Line 138: response.arrayBuffer() rejects.
BodyReject(l) ==
  /\ ld[l].pc = "body" /\ microtasks = <<>>
  /\ FailLoad(l, "bodyRejected", FailureMessage("bodyRejected"), ld[l])
  /\ UNCHANGED pointCount

\* Lines 146-181: setPointCount, the camera, and geometry and material,
\* which exist from here on.
WithBuffers(rec) ==
  [rec EXCEPT !.initLog = @ \o <<"decoded", "setPointCount", "camera", "geometry", "material">>,
              !.setCalls = @ + 1,
              !.aspect = JsDiv(ClientSize[1], ClientSize[2]),
              !.camDistance = CameraStart,
              !.res = [@ EXCEPT !["geometry"] = "live", !["material"] = "live"]]

\* A tick that draws before it advances the controls and schedules the
\* next tick last.
Mutant_FrameSteps == <<"render", "controlsUpdate", "requestAnimationFrame">>

\* Lines 199-203: animate, statement by statement.
FrameSteps == <<"requestAnimationFrame", "controlsUpdate", "render">>

FrameStep(rec, step) ==
  LET logged == [rec EXCEPT !.frameLog = Append(@, step)]
  IN  CASE step = "requestAnimationFrame" ->
             [logged EXCEPT !.raf = TRUE, !.rafPending = @ + 1]
        [] step = "controlsUpdate" -> [logged EXCEPT !.controlsUpdates = @ + 1]
        [] step = "render" -> [logged EXCEPT !.renderCalls = @ + 1]

RECURSIVE RunFrame(_, _)
RunFrame(rec, steps) ==
  IF steps = <<>> THEN rec ELSE RunFrame(FrameStep(rec, Head(steps)), Tail(steps))

\* One call of animate; frameLog keeps what the last call did, in order.
Animate(rec) == RunFrame([rec EXCEPT !.frameLog = <<>>], FrameSteps)

\* An init that calls setLoading(false) before it creates the renderer.
Mutant_RenderLoopSteps ==
  <<"setLoadingFalse", "renderer", "appendChild", "controls", "animate", "addResizeListener">>

\* Lines 184-215 in the order of the statements.
RenderLoopSteps ==
  <<"renderer", "appendChild", "controls", "setLoadingFalse", "animate", "addResizeListener">>

\* Lines 184-215: renderer, canvas, controls (with the controls.update of
\* line 194), setLoading(false), the first call of animate, the resize
\* listener; init resolves with the teardown.
WithRenderLoop(rec) ==
  Animate([rec EXCEPT !.pc = "done", !.outcome = "ok", !.teardown = "returned",
                      !.initLog = @ \o RenderLoopSteps,
                      !.setCalls = @ + 1,
                      !.res = [@ EXCEPT !["renderer"] = "live", !["controls"] = "live"],
                      !.controlsUpdates = @ + 1,
                      !.resizeListener = TRUE,
                      !.rendererSize = ClientSize,
                      !.target = "center",
                      !.minDistance = DefaultMinDistance])

\* Lines 138-217: response.arrayBuffer() resolves with body and init runs to
\* its end; webgl tells whether new THREE.WebGLRenderer gets a context.
BodyResolve(l, body, webgl) ==
  /\ ld[l].pc = "body" /\ microtasks = <<>>
  /\ IF Len(body) < 100
       THEN FailLoad(l, "tooSmall", FailureMessage("tooSmall"), Logged(ld[l], <<"body">>))
              /\ UNCHANGED pointCount
     ELSE IF ~SampleParses[body].ok
       THEN FailLoad(l, "parseError", SampleParses[body].error,
                     Logged(ld[l], <<"body", "decode">>))
              /\ UNCHANGED pointCount
     ELSE /\ pointCount' = SetState(pointCount, SampleParses[body].vertexCount)
          /\ IF ~webgl
               THEN FailLoad(l, "webglError", FailureMessage("webglError"),
                             WithBuffers(Logged(ld[l], <<"body", "decode">>)))
               ELSE /\ ld' = [ld EXCEPT ![l] =
                                 WithRenderLoop(WithBuffers(Logged(@, <<"body", "decode">>)))]
                    /\ container' = Append(container, l)
                    /\ loading' = SetState(loading, FALSE)
                    /\ microtasks' =
                         Enqueue(microtasks, l,
                                 WithRenderLoop(WithBuffers(Logged(ld[l], <<"body", "decode">>))))
                    /\ UNCHANGED <<mounted, splatUrl, nLoads, error, plyVars, camVars, uploadVars, hostVars, pollVars>>

\* Lines 199-203: one animation frame: the browser takes a pending
\* callback and calls animate, which schedules itself again.
AnimationFrame(l) ==
  /\ ld[l].rafPending > 0 /\ microtasks = <<>>
  /\ ld[l].renderCalls <= MaxFrames
  /\ ld' = [ld EXCEPT ![l] = Animate([@ EXCEPT !.rafPending = @ - 1])]
  /\ UNCHANGED <<mounted, splatUrl, nLoads, loading, error, pointCount,
                 container, microtasks, plyVars, camVars, uploadVars, hostVars, pollVars>>

\* A handleResize that resizes the canvas and leaves the camera alone.
Mutant_HandleResize_CanvasOnly(rec, size) == [rec EXCEPT !.rendererSize = size]

\* Lines 207-214: handleResize.  container and renderer are set whenever
\* the listener is registered, so line 208 never returns.
HandleResize(rec, size) ==
  [rec EXCEPT !.aspect = JsDiv(size[1], size[2]), !.rendererSize = size]

\* The window is resized: the layout gives the container a new size and
\* the resize event runs the registered listeners (line 215).
Resize(size) ==
  /\ mounted /\ microtasks = <<>>
  /\ size # containerSize
  /\ containerSize' = size
  /\ ld' = [l \in Loads |->
              IF ld[l].resizeListener THEN HandleResize(ld[l], size) ELSE ld[l]]
  /\ UNCHANGED <<mounted, splatUrl, nLoads, loading, error, pointCount,
                 container, microtasks, plyVars, uploadVars, hostVars, pollVars>>

Max(a, b) == IF a >= b THEN a ELSE b

\* What OrbitControls makes of one wheel step: the distance to the target
\* is scaled and kept at minDistance or more.
Dolly(rec, inward) ==
  [rec EXCEPT !.camDistance =
                Max(rec.minDistance,
                    IF inward THEN (@ * ZoomPercent) \div 100
                              ELSE (@ * 100) \div ZoomPercent),
              !.wheelEvents = @ + 1]

\* A wheel event on the canvas of load l, whose controls listen until
\* controls.dispose() (line 220).
Wheel(l, inward) ==
  /\ ld[l].res["controls"] = "live" /\ microtasks = <<>>
  /\ ld[l].wheelEvents < MaxWheel
  /\ ld' = [ld EXCEPT ![l] = Dolly(@, inward)]
  /\ UNCHANGED <<mounted, splatUrl, nLoads, loading, error, pointCount,
                 container, microtasks, plyVars, camVars, uploadVars, hostVars, pollVars>>

\* A teardown that releases the GPU buffers before it stops the loop.
Mutant_TeardownSteps ==
  <<"geometryDispose", "materialDispose", "removeResizeListener", "cancelAnimationFrame",
    "controlsDispose", "removeChild", "rendererDispose">>

\* Lines 217-227: the teardown function, statement by statement.
TeardownSteps ==
  <<"removeResizeListener", "cancelAnimationFrame", "controlsDispose", "removeChild",
    "rendererDispose", "geometryDispose", "materialDispose">>

Dispose(rec, r) ==
  [rec EXCEPT !.res = [@ EXCEPT ![r] = "disposed"],
              !.disposeCalls = [@ EXCEPT ![r] = @ + 1]]

TeardownStep(rec, step) ==
  LET logged == [rec EXCEPT !.tdLog = Append(@, step)]
  IN  CASE step = "removeResizeListener" -> [logged EXCEPT !.resizeListener = FALSE]
        [] step = "cancelAnimationFrame" ->
             [logged EXCEPT !.raf = FALSE,
                            !.rafPending = IF logged.raf THEN @ - 1 ELSE @]
        [] step = "controlsDispose" -> Dispose(logged, "controls")
        [] step = "removeChild" -> logged
        [] step = "rendererDispose" -> Dispose(logged, "renderer")
        [] step = "geometryDispose" -> Dispose(logged, "geometry")
        [] step = "materialDispose" -> Dispose(logged, "material")

RECURSIVE RunSteps(_, _)
RunSteps(rec, steps) ==
  IF steps = <<>> THEN rec ELSE RunSteps(TeardownStep(rec, Head(steps)), Tail(steps))

Teardown(rec) == [RunSteps(rec, TeardownSteps) EXCEPT !.teardown = "ran"]

\* container.removeChild(renderer.domElement), line 222.
RemoveChild(children, l) == SelectSeq(children, LAMBDA c : c # l)

\* Line 238: the reaction (fn) => fn?.() of the oldest settled cleanup.
RunMicrotask ==
  /\ microtasks # <<>>
  /\ LET l == Head(microtasks)
     IN  IF ld[l].teardown = "returned"
           THEN /\ ld' = [ld EXCEPT ![l] = Teardown(@)]
                /\ container' =
                     IF \E k \in 1..Len(TeardownSteps) : TeardownSteps[k] = "removeChild"
                       THEN RemoveChild(container, l) ELSE container
           ELSE UNCHANGED <<ld, container>>
  /\ microtasks' = Tail(microtasks)
  /\ UNCHANGED <<mounted, splatUrl, nLoads, loading, error, pointCount, plyVars, camVars, uploadVars, hostVars, pollVars>>

Next ==
  \/ MountEffect
  \/ \E u \in Urls : ChangeSplatUrl(u)
  \/ \E d \in DownloadUrls : ChangeDownloadUrl(d)
  \/ Unmount
  \/ \E l \in Loads : \E how \in {"ok", "fetchRejected", "httpError"} : FetchSettle(l, how)
  \/ \E l \in Loads : BodyReject(l)
  \/ \E l \in Loads : \E body \in SampleBodies : \E webgl \in BOOLEAN :
       BodyResolve(l, body, webgl)
  \/ \E l \in Loads : AnimationFrame(l)
  \/ RunMicrotask

Spec == Init /\ [][Next]_vars

(***************************************************************************)
(* The viewer with its user at the window: the loads as above, without the *)
(* frames of the render loop, which leave the camera where it is, and with *)
(* the resize and wheel events.                                            *)
(***************************************************************************)
NextCam ==
  \/ MountEffect
  \/ \E u \in Urls : ChangeSplatUrl(u)
  \/ Unmount
  \/ \E l \in Loads : \E how \in {"ok", "fetchRejected", "httpError"} : FetchSettle(l, how)
  \/ \E l \in Loads : BodyReject(l)
  \/ \E l \in Loads : \E body \in SampleBodies : \E webgl \in BOOLEAN :
       BodyResolve(l, body, webgl)
  \/ \E size \in ContainerSizes : Resize(size)
  \/ \E l \in Loads : \E inward \in BOOLEAN : Wheel(l, inward)
  \/ RunMicrotask

SpecCam == Init /\ [][NextCam]_vars

(***************************************************************************)
(* parsePLY on its own: a buffer is chosen, then decoded.                  *)
(***************************************************************************)
InitPLY ==
  /\ input \in Inputs
  /\ buffer = BufferOf(input)
  /\ result = <<>>
  /\ mounted = FALSE
  /\ splatUrl = 1
  /\ nLoads = 0
  /\ loading = TRUE
  /\ error = NoError
  /\ pointCount = JsNum(0)
  /\ ld = [l \in Loads |-> BlankLoad]
  /\ container = <<>>
  /\ microtasks = <<>>
  /\ containerSize = InitialSize
  /\ files = <<>>
  /\ uploading = FALSE
  /\ uploads = <<>>
  /\ inFlight = 0
  /\ nOps = 0
  /\ downloadUrl = 1
  /\ PollIdle

CallParsePLY ==
  /\ result = <<>>
  /\ result' = <<parsePLY(buffer)>>
  /\ UNCHANGED <<input, buffer, viewerVars, camVars, uploadVars, hostVars, pollVars>>

NextPLY == CallParsePLY

SpecPLY == InitPLY /\ [][NextPLY]_vars

\* The scheduling the browser guarantees: a pending microtask runs, and every
\* fetch and every body read settles one way or the other.
FairSpec ==
  /\ Init /\ [][Next]_vars
  /\ WF_vars(RunMicrotask)
  /\ \A l \in Loads :
       /\ WF_vars(\E how \in {"ok", "fetchRejected", "httpError"} : FetchSettle(l, how))
       /\ WF_vars(BodyReject(l)
                    \/ \E body \in SampleBodies : \E webgl \in BOOLEAN :
                         BodyResolve(l, body, webgl))

(***************************************************************************)
(* ImageUpload (src/unnamed/part_005): the list of selected files, the     *)
(* drop zone, the remove buttons and the upload button.  A file is kept by *)
(* its type.                                                               *)
(***************************************************************************)
MaxOps == 4

\* Line 19: slice(0, 20); lines 36 and 133: files.length < 10.
MaxImages == 20
MinImages == 10

\* file.type of the files the drop zone hands to onDrop: the two accepted
\* types, and the empty type of a file the drop zone accepted by its
\* extension.
FileTypes == {"image/png", "image/jpeg", ""}

\* The batches dropped: 1, 9 or 12 files, all PNG, all JPEG, or PNG, a
\* file without a type and JPEG in turn.
BatchSizes == {1, 9, 12}
Batch(n, kind) ==
  [j \in 1..n |->
     IF kind = "png" THEN "image/png"
     ELSE IF kind = "jpeg" THEN "image/jpeg"
     ELSE IF j % 3 = 1 THEN "image/png"
     ELSE IF j % 3 = 2 THEN ""
     ELSE "image/jpeg"]
DropBatches == {Batch(n, kind) : n \in BatchSizes, kind \in {"png", "jpeg", "mixed"}}

\* Lines 16-18: the filter on file.type.
IsImage(type) == type = "image/png" \/ type = "image/jpeg"
ImageFiles(acceptedFiles) == SelectSeq(acceptedFiles, IsImage)

\* Array.prototype.slice(0, n).
SliceTo(seq, n) == SubSeq(seq, 1, IF Len(seq) < n THEN Len(seq) ELSE n)

\* Lines 15-20: onDrop.
OnDrop(acceptedFiles) ==
  /\ nOps < MaxOps
  /\ files' = SliceTo(files \o ImageFiles(acceptedFiles), MaxImages)
  /\ nOps' = nOps + 1
  /\ UNCHANGED <<uploading, uploads, inFlight, plyVars, viewerVars, camVars, hostVars, pollVars>>

\* Lines 31-33: removeFile(index), from the remove button of a listed file.
RemoveFile(index) ==
  /\ nOps < MaxOps
  /\ index \in 0..(Len(files) - 1)
  /\ files' = [k \in 1..(Len(files) - 1) |-> IF k <= index THEN files[k] ELSE files[k + 1]]
  /\ nOps' = nOps + 1
  /\ UNCHANGED <<uploading, uploads, inFlight, plyVars, viewerVars, camVars, hostVars, pollVars>>

\* An upload button that asks for one file only.
Mutant_TooFew(fs) == Len(fs) < 1

\* Lines 36 and 133: files.length < 10.
TooFew(fs) == Len(fs) < MinImages

\* Line 133: disabled={uploading || files.length < 10}.
UploadDisabled == uploading \/ TooFew(files)

\* Lines 35-50: a click on the upload button, which is rendered when
\* files.length > 0 and takes no click while disabled; handleUpload runs
\* up to its fetch.
HandleUpload ==
  /\ nOps < MaxOps
  /\ Len(files) > 0 /\ ~UploadDisabled
  /\ nOps' = nOps + 1
  /\ IF TooFew(files)
       THEN UNCHANGED <<uploading, uploads, inFlight>>
       ELSE /\ uploading' = TRUE
            /\ uploads' = Append(uploads, files)
            /\ inFlight' = inFlight + 1
  /\ UNCHANGED <<files, plyVars, viewerVars, camVars, hostVars, pollVars>>

\* Lines 51-65: the request settles, one way or the other; the finally
\* block calls setUploading(false).
UploadSettle ==
  /\ inFlight > 0
  /\ inFlight' = inFlight - 1
  /\ uploading' = FALSE
  /\ UNCHANGED <<files, uploads, nOps, plyVars, viewerVars, camVars, hostVars, pollVars>>

InitUpload ==
  /\ input = <<>>
  /\ buffer = <<>>
  /\ result = <<>>
  /\ mounted = FALSE
  /\ splatUrl = 1
  /\ nLoads = 0
  /\ loading = TRUE
  /\ error = NoError
  /\ pointCount = JsNum(0)
  /\ ld = [l \in Loads |-> BlankLoad]
  /\ container = <<>>
  /\ microtasks = <<>>
  /\ containerSize = InitialSize
  /\ files = <<>>
  /\ uploading = FALSE
  /\ uploads = <<>>
  /\ inFlight = 0
  /\ nOps = 0
  /\ downloadUrl = 1
  /\ PollIdle

NextUpload ==
  \/ \E acceptedFiles \in DropBatches : OnDrop(acceptedFiles)
  \/ \E index \in 0..(MaxImages - 1) : RemoveFile(index)
  \/ HandleUpload
  \/ UploadSettle

SpecUpload == InitUpload /\ [][NextUpload]_vars

(***************************************************************************)
(* The page Home (frontend/README.md, lines 52-74) and the component       *)
(* ReconstructionProgress it renders while status is 'processing' and      *)
(* jobId is set.  Time is in milliseconds and passes in steps of TickMs.   *)
(* A job id is the number of the upload that made it; modelUrl holds the   *)
(* job whose download URL it is.  polls is the log of the status requests  *)
(* issued: the job, the time, and whether the response is still awaited.   *)
(***************************************************************************)
PollPeriodMs == 2000
TickMs == 1000

PageStatuses == {"idle", "processing", "complete", "error"}

\* ReconstructionProgress.tsx line 29: what a status response can hold;
\* "httpError" is a response that is not ok or a fetch that rejects.
PollOutcomes == {"running", "completed", "failed", "httpError"}
ProgressValues == {1, 2}

\* README.md lines 99-105: the component is rendered.
Rendered(status, job) == status = "processing" /\ job # 0

\* Line 45: setInterval(checkStatus, 2000).
SetInterval(job) == [active |-> TRUE, job |-> job, elapsed |-> 0]

\* A cleanup that leaves the timer running.
Mutant_ClearInterval(iv) == iv

\* Line 47: the cleanup of the effect.
ClearInterval(iv) == NoInterval

\* A render of Home with new state: the handlers it passes are new
\* functions, so the effect of lines 20-48 is cleaned up and, where the
\* component is still rendered, run again.
Rerender(iv, status, job) ==
  LET cleaned == IF iv.active THEN ClearInterval(iv) ELSE iv
  IN  IF Rendered(status, job) THEN SetInterval(job) ELSE cleaned

\* README.md lines 56-59: ImageUpload reports the job the server made.
HandleUploadComplete ==
  /\ pageStatus = "idle"
  /\ nJobs < MaxJobs
  /\ nJobs' = nJobs + 1
  /\ jobId' = nJobs + 1
  /\ pageStatus' = "processing"
  /\ interval' = Rerender(interval, "processing", nJobs + 1)
  /\ progress' = 0
  /\ UNCHANGED <<modelUrl, polls, clock, callbacks,
                 plyVars, viewerVars, camVars, uploadVars, hostVars>>

\* README.md lines 66-68, called by ImageUpload for a failed upload.
UploadError ==
  /\ pageStatus = "idle"
  /\ pageStatus' = "error"
  /\ interval' = Rerender(interval, "error", jobId)
  /\ UNCHANGED <<jobId, modelUrl, nJobs, polls, clock, progress, callbacks,
                 plyVars, viewerVars, camVars, uploadVars, hostVars>>

\* README.md lines 70-74: the buttons `Create Another Model` and `Try Again`.
ResetApp ==
  /\ pageStatus \in {"complete", "error"}
  /\ jobId' = 0
  /\ modelUrl' = 0
  /\ pageStatus' = "idle"
  /\ interval' = Rerender(interval, "idle", 0)
  /\ UNCHANGED <<nJobs, polls, clock, progress, callbacks,
                 plyVars, viewerVars, camVars, uploadVars, hostVars>>

\* A second passes; a timer that is due fires before the next one does.
Tick ==
  /\ clock < MaxTime * TickMs
  /\ interval.active => interval.elapsed < PollPeriodMs
  /\ clock' = clock + TickMs
  /\ interval' = IF interval.active
                   THEN [interval EXCEPT !.elapsed = @ + TickMs]
                 ELSE interval
  /\ UNCHANGED <<pageStatus, jobId, modelUrl, nJobs, polls, progress, callbacks,
                 plyVars, viewerVars, camVars, uploadVars, hostVars>>

\* Lines 21-23: the timer calls checkStatus, which fetches the status of
\* the job of its effect.
CheckStatus ==
  /\ interval.active
  /\ interval.elapsed = PollPeriodMs
  /\ polls' = Append(polls, [job |-> interval.job, at |-> clock, open |-> TRUE])
  /\ interval' = [interval EXCEPT !.elapsed = 0]
  /\ UNCHANGED <<pageStatus, jobId, modelUrl, nJobs, clock, progress, callbacks,
                 plyVars, viewerVars, camVars, uploadVars, hostVars>>

\* Lines 25-42: the rest of checkStatus, once the response of request i is
\* there.  setProgress acts on the component that made the request, if it
\* is still mounted; onComplete and onError are Home's handlers.
StatusResponse(i, outcome, p) ==
  LET job == polls[i].job
      sameMount == interval.active /\ interval.job = job
      status == IF outcome = "completed" THEN "complete"
                ELSE IF outcome \in {"failed", "httpError"} THEN "error"
                ELSE pageStatus
  IN  /\ polls[i].open
      /\ polls' = [polls EXCEPT ![i].open = FALSE]
      /\ progress' = IF outcome # "httpError" /\ sameMount THEN p ELSE progress
      /\ modelUrl' = IF outcome = "completed" THEN job ELSE modelUrl
      /\ pageStatus' = status
      /\ callbacks' = IF outcome = "completed"
                         THEN [callbacks EXCEPT ![job] = Append(@, "onComplete")]
                       ELSE IF outcome \in {"failed", "httpError"}
                         THEN [callbacks EXCEPT ![job] = Append(@, "onError")]
                       ELSE callbacks
      /\ interval' = IF status # pageStatus \/ modelUrl' # modelUrl
                       THEN Rerender(interval, status, jobId)
                     ELSE interval
      /\ UNCHANGED <<jobId, nJobs, clock,
                     plyVars, viewerVars, camVars, uploadVars, hostVars>>

InitPoll == InitUpload

NextPoll ==
  \/ HandleUploadComplete
  \/ UploadError
  \/ ResetApp
  \/ Tick
  \/ CheckStatus
  \/ \E i \in 1..Len(polls) : \E outcome \in PollOutcomes : \E p \in ProgressValues :
       StatusResponse(i, outcome, p)

SpecPoll == InitPoll /\ [][NextPoll]_vars

(***************************************************************************)
(* Properties.                                                             *)
(***************************************************************************)
InFlight(l) == ld[l].pc \in {"fetch", "body"}

\* The cleanup's reaction for load l has run: cleanup was called, init has
\* settled and the microtask is no longer queued.
ReactionRan(l) ==
  /\ ld[l].cleanupCalled
  /\ ld[l].pc = "done"
  /\ \A k \in 1..Len(microtasks) : microtasks[k] # l

\* C1: after the unmount no state setter is called for any load, no
\* renderer is created and no canvas is attached to the container.
C1_UnmountDiscardsResponse ==
  [][~mounted =>
       \A l \in Loads :
         /\ ld'[l].setCalls = ld[l].setCalls
         /\ (ld[l].res["renderer"] = "none" => ld'[l].res["renderer"] = "none")
         /\ Len(container') <= Len(container)]_vars

\* C2: once a newer load has begun, the superseded load renders no frame.
C2_NoStaleFrame ==
  [][\A l \in Loads :
       (l < nLoads /\ ld[l].cleanupCalled) => ld'[l].renderCalls = ld[l].renderCalls]_vars

\* C3: after the unmount, once a load's teardown reaction has run, every
\* resource created for the load has had dispose called exactly once.
C3_DisposedExactlyOnce ==
  \A l \in Loads :
    (~mounted /\ ReactionRan(l)) =>
      \A r \in {"geometry", "material", "renderer"} :
        ld[l].res[r] # "none" => (ld[l].res[r] = "disposed" /\ ld[l].disposeCalls[r] = 1)

\* C4: after the unmount the render-call count of the instance is frozen.
C4_NoRenderAfterUnmount ==
  [][~mounted => \A l \in Loads : ld'[l].renderCalls <= ld[l].renderCalls]_vars

Pos(log, step) == CHOOSE k \in 1..Len(log) : log[k] = step

Once(log, step) == Cardinality({k \in 1..Len(log) : log[k] = step}) = 1

InOrder(log, steps) ==
  /\ \A k \in 1..Len(steps) : Once(log, steps[k])
  /\ \A j, k \in 1..Len(steps) : j < k => Pos(log, steps[j]) < Pos(log, steps[k])

\* C5 as claimed: cancel the animation frame, then remove the resize
\* subscription, then controls, canvas and renderer, geometry and material.
C5_ClaimedOrder ==
  \A l \in Loads :
    ld[l].teardown = "ran" =>
      InOrder(ld[l].tdLog,
              <<"cancelAnimationFrame", "removeResizeListener", "controlsDispose",
                "removeChild", "rendererDispose", "geometryDispose", "materialDispose">>)

\* C5 as amended: the resize subscription is removed first, then the
\* animation frame is cancelled, then controls are disposed, the canvas is
\* detached and the renderer disposed, then geometry and material.
C5_TeardownOrder ==
  \A l \in Loads :
    ld[l].teardown = "ran" =>
      InOrder(ld[l].tdLog,
              <<"removeResizeListener", "cancelAnimationFrame", "controlsDispose",
                "removeChild", "rendererDispose", "geometryDispose", "materialDispose">>)

C5_Witness ==
  \E l \in Loads : ld[l].teardown = "ran" /\ ld[l].renderCalls > 1 /\ Len(ld[l].tdLog) = 7

\* C6: every load that is in flight settles in the catch block or with
\* the render loop started, and whenever the mounted viewer's current load
\* has settled, loading is false and either error is set or the render
\* loop of the current load is running.
Loaded == ~loading /\ error = NoError /\ ld[nLoads].raf /\ ld[nLoads].outcome = "ok"
Errored == ~loading /\ error # NoError

C6_ReachesLoadedOrError ==
  /\ \A l \in Loads : InFlight(l) ~> (ld[l].pc = "done" /\ ld[l].outcome # "none")
  /\ [](mounted /\ nLoads >= 1 /\ ld[nLoads].pc = "done" /\ microtasks = <<>>
          => (Loaded \/ Errored))

C6_Witness ==
  /\ mounted /\ nLoads = 2 /\ microtasks = <<>>
  /\ ld[1].outcome = "webglError" /\ ld[2].outcome = "ok" /\ Errored

\* C7: a load that ended because fetch rejected, the status was not ok or
\* parsePLY threw has made one fetch, created no renderer, attached no
\* canvas and rendered no frame; in the mounted viewer error is then a
\* message and loading is false.
LoadFailures == {"fetchRejected", "httpError", "parseError"}

C7_FailureSurfaces ==
  \A l \in Loads :
    ld[l].outcome \in LoadFailures =>
      /\ ld[l].pc = "done"
      /\ ld[l].fetchCalls = 1
      /\ ld[l].res = [r \in Resources |-> "none"]
      /\ ld[l].renderCalls = 0
      /\ ~ld[l].raf
      /\ \A k \in 1..Len(container) : container[k] # l
      /\ (mounted => (error # NoError /\ error[1] # "" /\ ~loading))

C7_Witness ==
  /\ mounted
  /\ \E a, b \in Loads :
       /\ ld[a].outcome = "parseError"
       /\ ld[b].outcome \in {"fetchRejected", "httpError"}

\* C8: the container never holds two renderer canvases.
C8_OneCanvas == Len(container) <= 1

\* C9: when the bytes after the header are fewer than count * stride, with
\* count >= 1 declared, parsePLY throws.
DeclaredCount(bytes) == ParseHeader(TextDecode(Slice0(bytes, FindHeaderEnd(bytes)))).vertexCount
DeclaredStride(bytes) ==
  4 * Len(ParseHeader(TextDecode(Slice0(bytes, FindHeaderEnd(bytes)))).properties)

Truncated(bytes) ==
  /\ ~DeclaredCount(bytes).nan
  /\ DeclaredCount(bytes).v >= 1
  /\ Len(bytes) - FindHeaderEnd(bytes) < DeclaredCount(bytes).v * DeclaredStride(bytes)

C9_TruncatedFails ==
  (result # <<>> /\ Truncated(buffer)) => ~result[1].ok

\* C10: a returned point cloud has positions.length == 3 * count,
\* colors.length == 3 * count and sizes.length == count.
C10_Shape ==
  (result # <<>> /\ result[1].ok) =>
    /\ JsStrictEq(JsNum(Len(result[1].positions)), JsMul(JsNum(3), result[1].vertexCount))
    /\ JsStrictEq(JsNum(Len(result[1].colors)), JsMul(JsNum(3), result[1].vertexCount))
    /\ JsStrictEq(JsNum(Len(result[1].sizes)), result[1].vertexCount)

\* What the header of the input declares, read off the make-up of the
\* input rather than from the parser.
Declares(in, name) == \E k \in 1..Len(in.props) : in.props[k] = name
Returned == result # <<>> /\ result[1].ok

\* The count the `element vertex` line gives in decimal, -1 when the line
\* is missing or its count is not a decimal number.
DeclaredVertices(in) ==
  IF in.hv /\ (\E n \in 0..MaxCount : in.ct = Decimal(n))
    THEN CHOOSE n \in 0..MaxCount : in.ct = Decimal(n)
    ELSE -1

\* The header is the well-formed one: its only end_header is the line
\* `end_header`.
PlainHeader(in) == in.term = "newline" /\ in.comment = "none"

\* C11: every color channel of a returned point cloud lies in [0, 1],
\* whatever singles the f_dc_0, f_dc_1 and f_dc_2 fields hold.
C11_ColorsInUnitInterval ==
  Returned =>
    \A j \in 1..Len(result[1].colors) : result[1].colors[j].k \in {"zero", "one", "affine"}

\* A header whose property list is inconsistent: x, y or z is missing, or
\* f_dc_0 comes without f_dc_1 or f_dc_2, or opacity and scale_0 come
\* without scale_1 or scale_2.
Inconsistent(in) ==
  \/ ~(Declares(in, Str_x) /\ Declares(in, Str_y) /\ Declares(in, Str_z))
  \/ (Declares(in, Str_f_dc_0) /\ ~(Declares(in, Str_f_dc_1) /\ Declares(in, Str_f_dc_2)))
  \/ (Declares(in, Str_opacity) /\ Declares(in, Str_scale_0)
        /\ ~(Declares(in, Str_scale_1) /\ Declares(in, Str_scale_2)))

\* C12: parsePLY throws on a buffer whose header is inconsistent.
C12_InconsistentHeaderFails ==
  (result # <<>> /\ PlainHeader(input) /\ DeclaredVertices(input) >= 1
     /\ Inconsistent(input))
    => ~result[1].ok

\* C13: parsePLY throws on a buffer that holds no `end_header` followed by
\* a newline, the buffer that ends with the bytes `end_header` included.
C13_NoTerminatorFails ==
  (result # <<>> /\ input.term \in {"trailing", "bare", "absent"}) => ~result[1].ok

\* C14: parsePLY throws on a buffer whose header has no `element vertex`
\* line or declares zero vertices; it returns no empty point cloud.
C14_NoVerticesFails ==
  (result # <<>> /\ (~input.hv \/ DeclaredVertices(input) = 0)) =>
    /\ ~result[1].ok
    /\ result[1].error = "No vertices found in PLY"

C14_Witness ==
  /\ result # <<>> /\ ~result[1].ok
  /\ PlainHeader(input) /\ input.props = PropXYZ /\ input.w >= 3
  /\ DeclaredVertices(input) = 0

\* What line 93 makes of each word of FloatWords: 0.0 and 1.0 give
\* 0.5 and 0.782..., -2.0 gives -0.064... which is cut to 0, 10.0 gives
\* 3.32... which is cut to 1, NaN stays NaN.
WordClass == <<"affine", "affine", "zero", "one", "nan">>

\* The place (from 0) of a declared property in the record.
FieldOf(in, name) == (CHOOSE k \in 1..Len(in.props) : in.props[k] = name) - 1

\* C15: a buffer that declares x, y, z only and holds its whole payload
\* decodes, with every color (1, 1, 1) and every size the default.  A
\* returned color is the white fallback when f_dc_0 is not declared and
\* comes from the f_dc_0 field when it is; a returned size is the default
\* when opacity or scale_0 is not declared and is computed when both are.
C15_Defaults ==
  (result # <<>> /\ PlainHeader(input)) =>
    /\ (input.props = PropXYZ /\ DeclaredVertices(input) >= 1
          /\ input.w >= 3 * DeclaredVertices(input))
         => (/\ result[1].ok
             /\ Len(result[1].colors) = 3 * DeclaredVertices(input)
             /\ Len(result[1].sizes) = DeclaredVertices(input))
    /\ result[1].ok =>
         /\ ~Declares(input, Str_f_dc_0) =>
              \A j \in 1..Len(result[1].colors) : result[1].colors[j].k = "one"
         /\ Declares(input, Str_f_dc_0) =>
              \A i \in 0..(Len(result[1].sizes) - 1) :
                result[1].colors[3 * i + 1].k =
                  WordClass[WordAt(i * Len(input.props) + FieldOf(input, Str_f_dc_0) + 1,
                                   input.fill)]
         /\ ~(Declares(input, Str_opacity) /\ Declares(input, Str_scale_0)) =>
              \A j \in 1..Len(result[1].sizes) : result[1].sizes[j] = [k |-> "default", v |-> 2]
         /\ (Declares(input, Str_opacity) /\ Declares(input, Str_scale_0)) =>
              \A j \in 1..Len(result[1].sizes) : result[1].sizes[j].k = "computed"

C15_Witness ==
  /\ Returned /\ PlainHeader(input)
  /\ input.props = PropXYZ /\ DeclaredVertices(input) = 2 /\ input.w = 6
  /\ result[1].colors = [j \in 1..6 |-> [k |-> "one"]]
  /\ result[1].sizes = [j \in 1..2 |-> [k |-> "default", v |-> 2]]

\* C16: the header ends at the first line that is exactly `end_header`
\* and the payload begins after that line's newline; a comment line that
\* holds the word does not end the header.
C16_HeaderEndsAtExactLine ==
  (result # <<>> /\ input.term = "newline") => FindHeaderEnd(buffer) = Len(HeaderOf(input))

\* C18: once the user has zoomed, the controls of a load have a positive
\* minimum distance and the camera is no nearer to the target than that.
C18_MinDistance ==
  \A l \in Loads :
    (ld[l].res["controls"] = "live" /\ ld[l].wheelEvents > 0) =>
      /\ ld[l].minDistance > 0
      /\ ld[l].camDistance >= ld[l].minDistance

\* A load whose model is on screen.
Showing(l) == ld[l].outcome = "ok" /\ ld[l].teardown = "returned"

C20_SelectionBounds ==
  /\ Len(files) <= 20
  /\ \A k \in 1..Len(files) : files[k] \in {"image/png", "image/jpeg"}
  /\ \A u \in 1..Len(uploads) :
       /\ Len(uploads[u]) >= 10 /\ Len(uploads[u]) <= 20
       /\ \A k \in 1..Len(uploads[u]) : uploads[u][k] \in {"image/png", "image/jpeg"}

\* Two batches of 12 were cut to 20, one file was removed, 19 were sent.
C20_Witness ==
  /\ Len(uploads) = 1 /\ Len(uploads[1]) = 19
  /\ Len(files) = 19
  /\ \E k \in 1..Len(files) : files[k] = "image/jpeg"

\* Step a comes before step b in the log whenever b is in it.
In(log, a) == \E k \in 1..Len(log) : log[k] = a
Before(log, a, b) == In(log, b) => (In(log, a) /\ Pos(log, a) < Pos(log, b))

C26_FrameTick ==
  [][\A l \in Loads :
       (mounted /\ Showing(l)) =>
         /\ ld[l].rafPending = 1
         /\ ld'[l].renderCalls # ld[l].renderCalls =>
              /\ ld'[l].renderCalls = ld[l].renderCalls + 1
              /\ ld'[l].controlsUpdates = ld[l].controlsUpdates + 1
              /\ Once(ld'[l].frameLog, "controlsUpdate")
              /\ Once(ld'[l].frameLog, "render")
              /\ Pos(ld'[l].frameLog, "controlsUpdate") < Pos(ld'[l].frameLog, "render")
              /\ ld'[l].rafPending = 1]_vars

C26_Witness ==
  \E l \in Loads :
    /\ mounted /\ Showing(l)
    /\ ld[l].renderCalls = 2 /\ ld[l].controlsUpdates = 3
    /\ ld[l].rafPending = 1

\* C27: when a load that has been superseded by a newer one settles, the
\* surfaced state (pointCount, error, loading) stays as it is.
C27_StaleLoadSilent ==
  [][\A l \in Loads :
       (mounted /\ l < nLoads /\ ld[l].pc # "done" /\ ld'[l].pc = "done") =>
         /\ pointCount' = pointCount
         /\ error' = error
         /\ loading' = loading]_vars

\* C28: a non-null error and a running render loop never coexist.
C28_NoErrorWithModel ==
  mounted => ~(error # NoError /\ \E l \in Loads : Showing(l) /\ ld[l].rafPending > 0)

\* C29: while the load of the current splatUrl is being fetched or
\* decoded, loading is true.
C29_LoadingWhileInFlight ==
  (mounted /\ nLoads >= 1 /\ InFlight(nLoads)) => loading

\* C24: the effect's cleanup is called, and a load is started, exactly
\* on the steps that change splatUrl or unmount the viewer.  A step that
\* changes downloadUrl, or that only updates loading, error or pointCount,
\* starts no load, calls no cleanup, creates no renderer and cancels no
\* frame; a change of splatUrl starts one load, which fetches once and
\* owns no object yet.
C24_RebuildOnlyOnSplatUrl ==
  [][/\ (splatUrl' = splatUrl /\ nLoads >= 1) =>
          /\ nLoads' = nLoads
          /\ \A l \in Loads : ld'[l].fetchCalls = ld[l].fetchCalls
     /\ (splatUrl' = splatUrl /\ mounted' = mounted) =>
          \A l \in Loads : ld'[l].cleanupCalled = ld[l].cleanupCalled
     /\ downloadUrl' # downloadUrl =>
          /\ ld' = ld
          /\ container' = container
          /\ microtasks' = microtasks
     /\ splatUrl' # splatUrl =>
          /\ nLoads' = nLoads + 1
          /\ ld'[nLoads].cleanupCalled
          /\ ld'[nLoads'].fetchCalls = 1
          /\ ld'[nLoads'].url = splatUrl'
          /\ ld'[nLoads'].res = [r \in Resources |-> "none"]
          /\ \A l \in Loads : l # nLoads' => ld'[l].fetchCalls = ld[l].fetchCalls
     /\ mounted' # mounted => ld'[nLoads].cleanupCalled]_vars

\* The parent changed downloadUrl while the model was on screen, and the
\* render loop went on.
C24_Witness ==
  \E l \in Loads :
    /\ mounted /\ l = nLoads /\ Showing(l)
    /\ downloadUrl # 1
    /\ ld[l].renderCalls >= 2 /\ ld[l].rafPending = 1
    /\ ~ld[l].cleanupCalled

\* The singles that the words of FloatWords stand for: 0.0, 1.0, -2.0,
\* 10.0 and the NaN, as sign, biased exponent and fraction.
WordSingle ==
  << [s |-> 0, e |-> 0, m |-> 0], [s |-> 0, e |-> 127, m |-> 0],
     [s |-> 1, e |-> 128, m |-> 0], [s |-> 0, e |-> 130, m |-> 2097152],
     [s |-> 0, e |-> 255, m |-> 4194304] >>

\* The single that the input holds as field `name` of record i.
FieldSingle(in, i, name) ==
  WordSingle[WordAt(i * Len(in.props) + FieldOf(in, name) + 1, in.fill)]

\* The header ends with the line `end_header` and has no other line with
\* the word in it.
CleanHeader(in) == in.term = "newline" /\ in.comment \in {"none", "benign"}

\* C25: the field declared at place k of the property list is read for
\* record i from the four bytes at payload offset i * 4 * fieldCount + 4 * k,
\* least significant byte first: positions[3i..3i+2] are the x, y and z the
\* input holds for record i, whatever other properties and whatever comment
\* line the header has; the opacity and scale operands of a computed size
\* are the record's own.
C25_FieldOffsets ==
  (Returned /\ CleanHeader(input) /\ DeclaredVertices(input) >= 1
   /\ Declares(input, Str_x) /\ Declares(input, Str_y) /\ Declares(input, Str_z)) =>
    /\ Len(result[1].positions) = 3 * DeclaredVertices(input)
    /\ \A i \in 0..(DeclaredVertices(input) - 1) :
         /\ result[1].positions[3 * i + 1] = FieldSingle(input, i, Str_x)
         /\ result[1].positions[3 * i + 2] = FieldSingle(input, i, Str_y)
         /\ result[1].positions[3 * i + 3] = FieldSingle(input, i, Str_z)
         /\ input.props = PropSplat =>
              /\ result[1].sizes[i + 1].opacity = FieldSingle(input, i, Str_opacity)
              /\ result[1].sizes[i + 1].s0 = FieldSingle(input, i, Str_scale_0)
              /\ result[1].sizes[i + 1].s1 = FieldSingle(input, i, Str_scale_1)
              /\ result[1].sizes[i + 1].s2 = FieldSingle(input, i, Str_scale_2)

\* Two records of six fields behind a header with a comment line.
C25_Witness ==
  /\ Returned /\ input.term = "newline" /\ input.comment = "benign"
  /\ input.props = PropNormals /\ DeclaredVertices(input) = 2 /\ input.w = 30
  /\ input.fill = 0
  /\ result[1].positions[1] = [s |-> 0, e |-> 127, m |-> 0]
  /\ result[1].positions[4] = [s |-> 1, e |-> 128, m |-> 0]

\* C22: a record with f_dc_0, f_dc_1 and f_dc_2 of 0, raw opacity 10 and
\* raw scales of 0, in a file of ten properties, decodes to the color
\* (0.5, 0.5, 0.5) and to a size that rounds to 49.998.
C22_ExampleRecord ==
  (Returned /\ input.fill = 2 /\ CleanHeader(input) /\ DeclaredVertices(input) >= 1) =>
    /\ \A j \in 1..(3 * DeclaredVertices(input)) :
         /\ result[1].colors[j].k = "affine"
         /\ ColorValue(result[1].colors[j]) = 500000
    /\ \A i \in 1..DeclaredVertices(input) :
         /\ result[1].sizes[i].k = "computed"
         /\ SizeValue(result[1].sizes[i]) >= 49997500
         /\ SizeValue(result[1].sizes[i]) < 49998500

\* The example file: `element vertex 3` and three records of ten words.
C22_Witness ==
  /\ Returned /\ input.fill = 2 /\ CleanHeader(input)
  /\ DeclaredVertices(input) = 3 /\ input.w = ExampleWords /\ input.t = 0
  /\ Len(result[1].sizes) = 3
  /\ SizeValue(result[1].sizes[3]) = 49997700

\* The requests of the log made for the job.
RequestsOf(job) == {i \in 1..Len(polls) : polls[i].job = job}

\* C21: a status request is issued only by the component mounted for the
\* page's current job, while the page is processing it; the requests of a
\* job are 2000 ms apart, and a mounted component is never more than
\* 2000 ms from its last request or its mounting.  Once the component is
\* unmounted or another job is mounted, the log gets no request for the
\* old job.
C21_PollEveryTwoSeconds ==
  [][/\ Len(polls') > Len(polls) =>
         /\ Rendered(pageStatus, jobId)
         /\ polls'[Len(polls')].job = jobId
         /\ polls'[Len(polls')].at = clock
         /\ \A i \in RequestsOf(jobId) : polls[i].at + PollPeriodMs <= clock
         /\ RequestsOf(jobId) # {} =>
              \E i \in RequestsOf(jobId) : polls[i].at + PollPeriodMs = clock
     /\ interval.active <=> Rendered(pageStatus, jobId)
     /\ interval.active => interval.job = jobId /\ interval.elapsed <= PollPeriodMs
     /\ (clock' > clock /\ Rendered(pageStatus, jobId) /\ RequestsOf(jobId) # {}) =>
          \E i \in RequestsOf(jobId) : polls[i].at + PollPeriodMs >= clock'
    ]_vars

\* A second job polled after the first one was polled twice and left.
C21_Witness ==
  /\ Len(polls) >= 3
  /\ polls[1].job = 1 /\ polls[2].job = 1 /\ polls[3].job = 2
  /\ polls[2].at = polls[1].at + PollPeriodMs
  /\ jobId = 2 /\ pageStatus = "processing"

\* C30: a status response that arrives when the page is no longer
\* processing the job of its request calls neither handler and changes
\* neither the page status nor the model URL, and no job has more than one
\* handler call.
C30_NoLateCallback ==
  [][/\ \A i \in 1..Len(polls) :
          (polls[i].open /\ ~polls'[i].open
           /\ ~(pageStatus = "processing" /\ jobId = polls[i].job)) =>
            /\ pageStatus' = pageStatus
            /\ modelUrl' = modelUrl
            /\ callbacks' = callbacks
     /\ \A j \in Jobs : Len(callbacks'[j]) <= 1
    ]_vars
====
